---- MODULE Spec2Model ----
(***************************************************************************)
(* Model of the signalling relay of src/server.js: the socket.io           *)
(* connection table (io.sockets.connected), the brokenSockets flags, the   *)
(* room table of ./rooms, the per-connection closure variable currentRoom, *)
(* and the handlers the server registers on every socket (join, signal,    *)
(* disconnect / disconnecting / error).                                    *)
(*                                                                         *)
(* Node runs every handler to completion, so one handler call is one step. *)
(* Every step records in `out` the packets the handler wrote to client     *)
(* transports and in `last` the event that was handled.                    *)
(***************************************************************************)
EXTENDS Naturals, Sequences, FiniteSets

\* ---------------------------------------------------------------- bounds
MaxConns    == 3   \* connection identifiers the transport may hand out
MaxRooms    == 2   \* distinct room names clients ask for
MaxCapacity == 2   \* largest configured config.max
MaxPayload  == 1   \* distinct opaque signal payloads

IDs      == 1..MaxConns
Rooms    == 1..MaxRooms
Payloads == 1..MaxPayload

NoID      == 0     \* JS undefined for an identifier (a missing `to` field)
NoRoom    == 0     \* JS undefined for currentRoom (`let currentRoom`)
Undefined == 0     \* JS undefined for config.max (no capacity configured)

NoData == [from |-> NoID, to |-> NoID, sdp |-> 0]

NoReply == [room |-> NoRoom, peers |-> {}]

VARIABLES
  connected,      \* io.sockets.connected: identifiers in connection order
  used,           \* identifiers the transport has already handed out
  brokenSockets,  \* identifiers with brokenSockets[id] = true
  rooms,          \* room name -> ordered membership (./rooms)
  currentRoom,    \* the closure variable currentRoom of each connection
  configMax,      \* config.max as loaded (Undefined when not configured)
  closing,        \* the socket whose 'disconnect' is due next (inside onclose)
  out,            \* packets written to client transports by the last handler
  last,           \* the event the last handler call handled
  joined          \* per connection: room and peers of its latest joined reply

vars == <<connected, used, brokenSockets, rooms, currentRoom, configMax,
          closing, out, last, joined>>

\* ---------------------------------------------------------------- helpers
Range(s) == {s[i] : i \in DOMAIN s}

Occurrences(s, x) == Cardinality({i \in DOMAIN s : s[i] = x})

\* ---------------------------------------------------------------- ./rooms
\* allSocketsForRoom(room): the membership of the room, empty when unknown.
allSocketsForRoom(rms, room) == rms[room]

\* addSocketToRoom(sid, room): appends sid to the room's membership.
addSocketToRoom(rms, sid, room) == [rms EXCEPT ![room] = Append(@, sid)]

\* removeSocketFromRoom(sid, room): drops sid from the room; nothing to do
\* for a connection that never joined (room undefined).
removeSocketFromRoom(rms, sid, room) ==
  IF room = NoRoom THEN rms
  ELSE [rms EXCEPT ![room] = SelectSeq(@, LAMBDA x : x # sid)]

\* ---------------------------------------------------------------- registry
\* activeSockets(id): connected, not id, not flagged broken.
activeSockets(id) ==
  SelectSeq(connected, LAMBDA s : s # id /\ s \notin brokenSockets)

\* socketByID(id): io.sockets.connected[id]; NoID when there is none.
\* The brokenSockets flags are not consulted.
socketByID(id) == IF id \in Range(connected) THEN id ELSE NoID

\* A packet written to the transport of connection `to`.
Packet(to, name, payload) == [to |-> to, name |-> name, payload |-> payload]

\* io.emit(name, msg): one packet to every socket of io.sockets.connected,
\* in connection order.
ioEmit(conn, name, msg) == [i \in DOMAIN conn |-> Packet(conn[i], name, msg)]

\* The event names socket.io dispatches to the socket's own listeners
\* instead of writing a packet: socket.emit('error', ...) on the server runs
\* the 'error' listener registered in the connection callback.
ReservedEvents ==
  {"error", "connect", "disconnect", "disconnecting", "newListener",
   "removeListener"}

\* The record of a handled event: its name, the socket it arrived on, the
\* room or payload it carried, whether the join found the room full, the
\* socket's currentRoom before a join, and whether the socket was already
\* flagged broken before a teardown.
Event(ev, sid, room, full, prev, again, data) ==
  [ev |-> ev, sid |-> sid, room |-> room, full |-> full, prev |-> prev,
   again |-> again, data |-> data]

\* ---------------------------------------------------------------- Init
Init ==
  /\ connected = <<>>
  /\ used = {}
  /\ brokenSockets = {}
  /\ rooms = [r \in Rooms |-> <<>>]
  /\ currentRoom = [c \in IDs |-> NoRoom]
  /\ configMax \in {Undefined} \cup (1..MaxCapacity)
  /\ closing = NoID
  /\ out = <<>>
  /\ last = Event("init", NoID, NoRoom, FALSE, NoRoom, FALSE, NoData)
  /\ joined = [c \in IDs |-> NoReply]

\* ---------------------------------------------------------------- handlers
\* io.on('connection'): a new socket with a fresh identifier; its closure
\* starts with currentRoom undefined. Identifiers are opaque, so they are
\* handed out in increasing order.
Connection(sid) ==
  /\ closing = NoID
  /\ sid = Cardinality(used) + 1
  /\ used' = used \cup {sid}
  /\ connected' = Append(connected, sid)
  /\ currentRoom' = [currentRoom EXCEPT ![sid] = NoRoom]
  /\ out' = <<>>
  /\ last' = Event("connection", sid, NoRoom, FALSE, NoRoom, FALSE, NoData)
  /\ UNCHANGED <<brokenSockets, rooms, configMax, closing, joined>>

\* brokenSocket(socket): flag the socket, broadcast remove to everyone.
brokenSocketFlags(sid) == brokenSockets \cup {sid}

brokenSocketOut(sid) == ioEmit(connected, "remove", [id |-> sid])

\* The listener shared by 'disconnect', 'disconnecting' and 'error':
\* brokenSocket(socket); removeSocketFromRoom(sid, currentRoom).
teardownRooms(sid) == removeSocketFromRoom(rooms, sid, currentRoom[sid])

Teardown(sid) ==
  /\ brokenSockets' = brokenSocketFlags(sid)
  /\ rooms' = teardownRooms(sid)
  /\ UNCHANGED <<currentRoom, configMax, used>>

\* 'error' on a connected socket: the socket stays in io.sockets.connected.
Error(sid) ==
  /\ closing = NoID
  /\ sid \in Range(connected)
  /\ Teardown(sid)
  /\ out' = brokenSocketOut(sid)
  /\ last' = Event("error", sid, NoRoom, FALSE, NoRoom,
                  sid \in brokenSockets, NoData)
  /\ UNCHANGED <<connected, closing, joined>>

\* The transport closes: socket.io emits 'disconnecting' while the socket is
\* still in io.sockets.connected ...
Disconnecting(sid) ==
  /\ closing = NoID
  /\ sid \in Range(connected)
  /\ Teardown(sid)
  /\ out' = brokenSocketOut(sid)
  /\ last' = Event("disconnecting", sid, NoRoom, FALSE, NoRoom,
                  sid \in brokenSockets, NoData)
  /\ closing' = sid
  /\ UNCHANGED <<connected, joined>>

\* ... then deletes it from io.sockets.connected and emits 'disconnect',
\* in the same call, before any other event is handled.
Disconnect(sid) ==
  /\ closing = sid
  /\ sid # NoID
  /\ connected' = SelectSeq(connected, LAMBDA s : s # sid)
  /\ Teardown(sid)
  /\ out' = ioEmit(connected', "remove", [id |-> sid])
  /\ last' = Event("disconnect", sid, NoRoom, FALSE, NoRoom,
                  sid \in brokenSockets, NoData)
  /\ closing' = NoID
  /\ UNCHANGED joined

\* The joined packets in o addressed to the requester sid.
RepliesToRequester(o, sid) ==
  {i \in DOMAIN o : o[i].name = "joined" /\ o[i].to = sid}

\* const full = peers.length >= config.max
\* (a comparison with undefined is false in JavaScript)
isFull(peers) == configMax # Undefined /\ Len(peers) >= configMax

\* socket.emit(name, msg) on the server: a packet to the client, except for
\* the reserved names, which only reach the socket's own listeners.
socketEmit(sid, name, msg) ==
  IF name \in ReservedEvents THEN <<>> ELSE <<Packet(sid, name, msg)>>

\* A join that forgets to leave the previous room.
joinRoomsNoLeave(sid, room) == addSocketToRoom(rooms, sid, room)

\* A join that puts the newcomer in front of the existing members.
joinRoomsFront(sid, room) ==
  LET left == removeSocketFromRoom(rooms, sid, currentRoom[sid])
  IN  [left EXCEPT ![room] = <<sid>> \o @]

\* removeSocketFromRoom(sid, currentRoom); addSocketToRoom(sid, room)
joinRooms(sid, room) ==
  addSocketToRoom(removeSocketFromRoom(rooms, sid, currentRoom[sid]), sid, room)

\* A join that forgets to record the new room.
joinCurrentRoomStale(sid, room) == currentRoom

\* currentRoom = room
joinCurrentRoom(sid, room) == [currentRoom EXCEPT ![sid] = room]

\* A joined reply that leaves the snapshot out.
joinedReplyNoPeers(sid, room, peers) ==
  socketEmit(sid, "joined", [room |-> room, peers |-> <<>>])

\* socket.emit('joined', { room, peers })
joinedReply(sid, room, peers) ==
  socketEmit(sid, "joined", [room |-> room, peers |-> peers])

\* socket.emit('error', { error, code: 1, full })
errorReply(sid, room) ==
  socketEmit(sid, "error", [error |-> room, code |-> 1, full |-> TRUE])

\* socket.on('join'): the snapshot of the room is taken first; a full room
\* emits 'error' on the socket, which runs the socket's own 'error' listener
\* (the teardown listener) before the handler returns.
JoinListener(sid, room) ==
  /\ closing = NoID
  /\ sid \in Range(connected)
  /\ LET peers == allSocketsForRoom(rooms, room)
         full  == isFull(peers)
     IN  /\ last' = Event("join", sid, room, full, currentRoom[sid],
                           sid \in brokenSockets, NoData)
         /\ IF full
            THEN /\ Teardown(sid)
                 /\ out' = errorReply(sid, room) \o brokenSocketOut(sid)
            ELSE /\ rooms' = joinRooms(sid, room)
                 /\ currentRoom' = joinCurrentRoom(sid, room)
                 /\ out' = joinedReply(sid, room, peers)
                 /\ UNCHANGED <<brokenSockets, configMax, used>>
  /\ UNCHANGED <<connected, closing>>

\* The join listener, the reply history left alone.
Join(sid, room) ==
  /\ JoinListener(sid, room)
  /\ UNCHANGED joined

\* The join listener, with the joined reply it sent (if any) remembered as
\* the requester's most recent one.
JoinRecorded(sid, room) ==
  /\ JoinListener(sid, room)
  /\ joined' = IF RepliesToRequester(out', sid) = {}
               THEN joined
               ELSE [joined EXCEPT ![sid] =
                       [room  |-> out'[1].payload.room,
                        peers |-> Range(out'[1].payload.peers)]]

\* A forward that overwrites the sender field (from: socket.id).
forwardedFromSid(sid, data) == [data EXCEPT !.from = sid]

\* toSocket.emit('signal', { ...data }): a copy of the received payload.
forwarded(sid, data) == data

\* A relay that drops a signal whose `from` is not the sender's identifier.
signalOutStrict(sid, data) ==
  IF data.from = sid /\ data.to # NoID /\ socketByID(data.to) # NoID
  THEN socketEmit(socketByID(data.to), "signal", forwarded(sid, data))
  ELSE <<>>

\* A relay that resolves `to` only among the members of the sender's room.
signalOutSameRoom(sid, data) ==
  IF /\ data.to # NoID /\ socketByID(data.to) # NoID
     /\ currentRoom[sid] # NoRoom
     /\ data.to \in Range(rooms[currentRoom[sid]])
  THEN socketEmit(socketByID(data.to), "signal", forwarded(sid, data))
  ELSE <<>>

\* socket.on('signal'): a wrong `from` is only logged; the target is looked
\* up in io.sockets.connected and nothing is sent when it is not there.
signalOut(sid, data) ==
  IF data.to # NoID /\ socketByID(data.to) # NoID
  THEN socketEmit(socketByID(data.to), "signal", forwarded(sid, data))
  ELSE <<>>

SignalData == [from : IDs, to : IDs \cup {NoID}, sdp : Payloads]

Signal(sid, data) ==
  /\ closing = NoID
  /\ sid \in Range(connected)
  /\ out' = signalOut(sid, data)
  /\ last' = Event("signal", sid, NoRoom, FALSE, NoRoom, FALSE, data)
  /\ UNCHANGED <<connected, used, brokenSockets, rooms, currentRoom,
                 configMax, closing, joined>>

Next ==
  \/ \E sid \in IDs : Connection(sid)
  \/ \E sid \in IDs, room \in Rooms : Join(sid, room)
  \/ \E sid \in IDs, data \in SignalData : Signal(sid, data)
  \/ \E sid \in IDs : Error(sid)
  \/ \E sid \in IDs : Disconnecting(sid)
  \/ \E sid \in IDs : Disconnect(sid)

Spec == Init /\ [][Next]_vars

\* ------------------------------------------------- the default capacity
\* max: config.max || 50
DefaultMax == 50

\* CONFIG.max: the loaded value, or the default when there is none. The
\* join listener does not read it: it compares with config.max (isFull).
CONFIG_max == IF configMax = Undefined THEN DefaultMax ELSE configMax

\* The connections that act once a room is one short of the default.
LateIDs == DefaultMax..(DefaultMax + MaxConns - 1)

\* The server with no capacity configured, after DefaultMax - 1 connections
\* have each joined room 1: every one of those joins found the room not
\* full and was accepted.
InitDefault ==
  /\ configMax = Undefined
  /\ connected = [i \in 1..(DefaultMax - 1) |-> i]
  /\ used = 1..(DefaultMax - 1)
  /\ brokenSockets = {}
  /\ rooms = [r \in Rooms |->
               IF r = 1 THEN [i \in 1..(DefaultMax - 1) |-> i] ELSE <<>>]
  /\ currentRoom = [c \in 1..(DefaultMax + MaxConns - 1) |->
                     IF c < DefaultMax THEN 1 ELSE NoRoom]
  /\ closing = NoID
  /\ out = <<Packet(DefaultMax - 1, "joined",
                    [room |-> 1, peers |-> [i \in 1..(DefaultMax - 2) |-> i]])>>
  /\ last = Event("join", DefaultMax - 1, 1, FALSE, NoRoom, FALSE, NoData)
  /\ joined = [c \in 1..(DefaultMax + MaxConns - 1) |->
                IF c < DefaultMax
                THEN [room |-> 1, peers |-> 1..(c - 1)]
                ELSE NoReply]

\* The later connections connect, join and are torn down.
NextDefault ==
  \/ \E sid \in LateIDs : Connection(sid)
  \/ \E sid \in LateIDs, room \in Rooms : Join(sid, room)
  \/ \E sid \in LateIDs : Error(sid)
  \/ \E sid \in LateIDs : Disconnecting(sid)
  \/ \E sid \in LateIDs : Disconnect(sid)

SpecDefault == InitDefault /\ [][NextDefault]_vars

\* ------------------------------------------------- the reply history
\* The same server, observed with every connection's most recent joined
\* reply; signals touch neither the rooms nor the replies and are left out.
NextReplies ==
  \/ \E sid \in IDs : Connection(sid)
  \/ \E sid \in IDs, room \in Rooms : JoinRecorded(sid, room)
  \/ \E sid \in IDs : Error(sid)
  \/ \E sid \in IDs : Disconnecting(sid)
  \/ \E sid \in IDs : Disconnect(sid)

SpecReplies == Init /\ [][NextReplies]_vars

\* ---------------------------------------------------------------- claims
Members(r) == Range(rooms[r])

RoomsOf(c) == {r \in Rooms : c \in Members(r)}

Healthy(c) == c \in Range(connected) /\ c \notin brokenSockets

TeardownEvents == {"error", "disconnecting", "disconnect"}

\* The packets of o that are remove notices about connection c.
NoticesAbout(o, c) ==
  {i \in DOMAIN o : o[i].name = "remove" /\ o[i].payload.id = c}

\* The packets of o with the given name addressed to connection c.
RepliesTo(o, c, name) == {i \in DOMAIN o : o[i].name = name /\ o[i].to = c}

NoDuplicates(s) == \A i, j \in DOMAIN s : s[i] = s[j] => i = j

\* C1 (room exclusivity): in every reachable state each connection
\* identifier is a member of at most one room and occurs at most once in
\* that room's membership.
C1_RoomExclusivity ==
  \A c \in IDs :
    /\ Cardinality(RoomsOf(c)) <= 1
    /\ \A r \in Rooms : Occurrences(rooms[r], c) <= 1

\* C1 witness: a connection that was in one room has just joined another
\* room that already had a member.
C1_Witness ==
  /\ last.ev = "join" /\ ~last.full
  /\ last.prev # NoRoom /\ last.prev # last.room
  /\ last.sid \in Members(last.room)
  /\ Len(rooms[last.room]) >= 2

\* Capacity bound (the first half of C2): with config.max configured no
\* room ever has more members than config.max.
CapacityBound ==
  configMax # Undefined => \A r \in Rooms : Len(rooms[r]) <= configMax

\* C2 (capacity enforcement): with a configured capacity no room exceeds
\* it, and a join to a full room is answered to the requester with an error
\* message carrying code 1 and full = true, and with no joined message.
C2_CapacityEnforcement ==
  configMax # Undefined =>
    /\ \A r \in Rooms : Len(rooms[r]) <= configMax
    /\ (last.ev = "join" /\ last.full) =>
         /\ \E i \in RepliesTo(out, last.sid, "error") :
              out[i].payload.code = 1 /\ out[i].payload.full
         /\ RepliesTo(out, last.sid, "joined") = {}

\* C3 (rejected join changes nothing): a join rejected for capacity leaves
\* every room's membership and the requester's currentRoom as they were.
C3_RejectedJoinChangesNothing ==
  [][(last'.ev = "join" /\ last'.full) =>
       (rooms' = rooms /\ currentRoom' = currentRoom)]_vars

\* C4 (capacity rejection is not fatal): after a rejected join the
\* requester is not flagged broken and no remove notice about it was sent;
\* a join to a room below capacity is answered with joined.
C4_RejectionNotFatal ==
  [][/\ (last'.ev = "join" /\ last'.full) =>
          /\ last'.sid \notin brokenSockets'
          /\ NoticesAbout(out', last'.sid) = {}
     /\ (last'.ev = "join" /\ ~isFull(rooms[last'.room])) =>
          RepliesTo(out', last'.sid, "joined") # {}]_vars

\* C5 (join snapshot): the peers list of a joined reply equals, in order
\* and without duplicates, the membership of the room immediately before
\* the requester was added, also when the requester was already a member.
C5_JoinSnapshot ==
  [][(last'.ev = "join" /\ ~last'.full) =>
       /\ Len(out') = 1
       /\ out'[1].payload.peers =
            removeSocketFromRoom(rooms, last'.sid,
                                 currentRoom[last'.sid])[last'.room]
       /\ NoDuplicates(out'[1].payload.peers)]_vars

\* C6 (silent drop): a signal whose `to` names no connected socket, or a
\* socket flagged broken, produces no outbound packet at all.
C6_SilentDrop ==
  (last.ev = "signal" /\ ~Healthy(last.data.to)) => out = <<>>

\* C7 (verbatim forwarding): a signal whose `to` names a healthy connected
\* socket produces exactly one signal packet, to that socket, carrying the
\* received payload in every field; a signal without `to` produces none.
C7_VerbatimForwarding ==
  last.ev = "signal" =>
    /\ Healthy(last.data.to) =>
         out = <<Packet(last.data.to, "signal", last.data)>>
    /\ last.data.to = NoID => out = <<>>

\* C7 witness: a signal with a foreign `from` was forwarded to a healthy
\* socket other than the sender.
C7_Witness ==
  /\ last.ev = "signal"
  /\ Healthy(last.data.to)
  /\ last.data.to # last.sid
  /\ last.data.from # last.sid
  /\ Len(out) = 1

\* C8 (teardown idempotence): handling a teardown event for a socket that
\* was already torn down leaves the memberships and the broken flags as
\* they were and broadcasts no further remove notice.
C8_TeardownIdempotent ==
  [][(last'.ev \in TeardownEvents /\ last'.again) =>
       /\ rooms' = rooms
       /\ brokenSockets' = brokenSockets
       /\ NoticesAbout(out', last'.sid) = {}]_vars

\* C9 (removal notice): a handled teardown of C sends a remove notice about
\* C to every other connected socket, and to no socket that is C itself or
\* is flagged broken.
C9_RemovalNotice ==
  last.ev \in TeardownEvents =>
    /\ \A c \in Range(connected) \ {last.sid} :
         \E i \in NoticesAbout(out, last.sid) : out[i].to = c
    /\ \A i \in NoticesAbout(out, last.sid) :
         out[i].to # last.sid /\ out[i].to \notin brokenSockets

\* C10 (no stale members): once a teardown of C has been handled, C is a
\* member of no room in every later state, and no later joined reply lists
\* C among its peers.
C10_NoStaleMembers ==
  /\ \A c \in brokenSockets : RoomsOf(c) = {}
  /\ (last.ev = "join" /\ ~last.full) =>
       \A i \in RepliesTo(out, last.sid, "joined") :
         Range(out[i].payload.peers) \cap brokenSockets = {}

\* C11 (default capacity): with no capacity configured the join listener
\* enforces the default of 50: no room has more than 50 members and no
\* joined reply is sent for a room that already had 50 members.
C11_DefaultCapacity ==
  configMax = Undefined =>
    /\ \A r \in Rooms : Len(rooms[r]) <= DefaultMax
    /\ (last.ev = "join" /\ ~last.full) =>
         \A i \in RepliesTo(out, last.sid, "joined") :
           Len(out[i].payload.peers) < DefaultMax

Others(s, c) == SelectSeq(s, LAMBDA x : x # c)

\* C12 (room switch): an accepted join of C to R while C's currentRoom is
\* another room R' makes C the last member of R, leaves C out of R', keeps
\* the order of the other members of R and R', and changes no other room.
C12_RoomSwitch ==
  [][(last'.ev = "join" /\ ~last'.full /\ last'.prev # last'.room) =>
       LET c  == last'.sid
           R  == last'.room
           Rp == last'.prev
       IN  /\ Len(rooms'[R]) >= 1
           /\ rooms'[R][Len(rooms'[R])] = c
           /\ Others(rooms'[R], c) = Others(rooms[R], c)
           /\ Occurrences(rooms'[R], c) = 1
           /\ Rp # NoRoom =>
                /\ c \notin Range(rooms'[Rp])
                /\ rooms'[Rp] = Others(rooms[Rp], c)
           /\ \A r \in Rooms \ {R, Rp} : rooms'[r] = rooms[r]]_vars

\* C12 witness: a connection has just moved from a room where it leaves a
\* member behind to a room that already had a member.
C12_Witness ==
  /\ last.ev = "join" /\ ~last.full
  /\ last.prev # NoRoom /\ last.prev # last.room
  /\ Len(rooms[last.prev]) >= 1
  /\ Len(rooms[last.room]) >= 2
  /\ rooms[last.room][Len(rooms[last.room])] = last.sid

\* C13 (join replies only to the requester): every join produces exactly
\* one outbound message, to the requester, either joined or error, and no
\* message to any other connection.
C13_JoinRepliesOnlyToRequester ==
  last.ev = "join" =>
    /\ Len(out) = 1
    /\ out[1].to = last.sid
    /\ out[1].name \in {"joined", "error"}

\* C14 (identity mismatch is not fatal): a signal whose `from` is not the
\* sender's identifier is forwarded to a healthy target like a matching
\* one, with the asserted `from` unchanged, and the sender is neither
\* flagged broken nor removed from its room.
C14_IdentityMismatch ==
  [][(last'.ev = "signal" /\ last'.data.from # last'.sid) =>
       /\ Healthy(last'.data.to) =>
            /\ Len(out') = 1
            /\ out'[1].to = last'.data.to
            /\ out'[1].name = "signal"
            /\ out'[1].payload.from = last'.data.from
            /\ LET m == signalOut(last'.sid,
                                  [last'.data EXCEPT !.from = last'.sid])
               IN  /\ Len(m) = 1
                   /\ m[1].to = out'[1].to
                   /\ m[1].name = out'[1].name
                   /\ m[1].payload =
                        [out'[1].payload EXCEPT !.from = last'.sid]
       /\ brokenSockets' = brokenSockets
       /\ rooms' = rooms
       /\ currentRoom' = currentRoom]_vars

\* C14 witness: a healthy member of a room has sent a signal with a foreign
\* `from` to a healthy target, and it was delivered.
C14_Witness ==
  /\ last.ev = "signal"
  /\ last.data.from # last.sid
  /\ Healthy(last.sid)
  /\ RoomsOf(last.sid) # {}
  /\ Healthy(last.data.to)
  /\ RepliesTo(out, last.data.to, "signal") # {}

\* C15 (last-slot race): two different healthy connections each send a join
\* for a room with exactly one free slot. Listeners run to completion, so
\* the two joins are handled one after the other; when the second is
\* handled right after the first, the first got joined, the second gets
\* the capacity error and no joined, and the room ends with exactly
\* capacity members.
C15_LastSlotRace ==
  [][(/\ configMax # Undefined
      /\ last.ev = "join" /\ ~last.full /\ ~last.again
      /\ last.prev # last.room
      /\ Len(rooms[last.room]) = configMax
      /\ last'.ev = "join" /\ last'.room = last.room
      /\ last'.sid # last.sid /\ ~last'.again
      /\ last'.sid \notin Range(rooms[last.room])) =>
       /\ RepliesTo(out, last.sid, "joined") # {}
       /\ RepliesTo(out', last'.sid, "error") # {}
       /\ RepliesTo(out', last'.sid, "joined") = {}
       /\ Len(rooms'[last.room]) = configMax]_vars

\* The connections a handler wrote a packet to.
Targets(o) == {o[i].to : i \in DOMAIN o}

\* C16 (signal routing ignores rooms): the packets a signal produces are
\* determined by its payload and by whether `to` is a connected socket,
\* whatever the room memberships are (sender unjoined, sender and target
\* in different rooms or in the same room), and a signal changes no room
\* membership and no broken flag.
C16_SignalIgnoresRooms ==
  [][last'.ev = "signal" =>
       /\ out' = IF last'.data.to \in Range(connected)
                 THEN <<Packet(last'.data.to, "signal", last'.data)>>
                 ELSE <<>>
       /\ rooms' = rooms
       /\ brokenSockets' = brokenSockets]_vars

\* C16 witness: a signal was delivered from a member of one room to a
\* member of another room.
C16_Witness ==
  /\ last.ev = "signal"
  /\ RoomsOf(last.sid) # {}
  /\ last.data.to \in IDs
  /\ RoomsOf(last.data.to) # {}
  /\ RoomsOf(last.data.to) # RoomsOf(last.sid)
  /\ Targets(out) = {last.data.to}

\* C17 (no self in peer list): the peers list of a joined reply sent to a
\* connection never contains that connection's own identifier.
C17_NoSelfInPeers ==
  (last.ev = "join" /\ ~last.full) =>
    \A i \in RepliesTo(out, last.sid, "joined") :
      last.sid \notin Range(out[i].payload.peers)

\* C18 (session state agrees with the room table): for every healthy
\* connection, currentRoom is unset exactly when the connection is a member
\* of no room, and otherwise names the one room whose membership has it.
C18_SessionAgreesWithRooms ==
  \A c \in IDs :
    Healthy(c) =>
      /\ (currentRoom[c] = NoRoom) <=> (RoomsOf(c) = {})
      /\ currentRoom[c] # NoRoom => RoomsOf(c) = {currentRoom[c]}

\* C18 witness: a healthy connection has just switched rooms while a
\* broken connection keeps a stale currentRoom.
C18_Witness ==
  /\ last.ev = "join" /\ ~last.full
  /\ Healthy(last.sid)
  /\ last.prev # NoRoom /\ last.prev # last.room
  /\ currentRoom[last.sid] = last.room
  /\ \E d \in brokenSockets : currentRoom[d] # NoRoom /\ RoomsOf(d) = {}

\* C19 (every co-member pair has an initiator): for any two distinct
\* healthy connections that are members of the same room R, at least one
\* of them received the other's identifier in the peers list of its most
\* recent joined reply, and that reply was for R.
C19_PairHasInitiator ==
  \A r \in Rooms : \A a, b \in Members(r) :
    (a # b /\ Healthy(a) /\ Healthy(b)) =>
      \/ joined[a].room = r /\ b \in joined[a].peers
      \/ joined[b].room = r /\ a \in joined[b].peers

\* C19 witness: two healthy co-members of which the earlier one (listed
\* first) has since rejoined elsewhere and come back, so that it is the
\* later member that did not see the other in its own reply.
C19_Witness ==
  \E r \in Rooms : \E a, b \in Members(r) :
    /\ a # b /\ Healthy(a) /\ Healthy(b)
    /\ joined[a].room = r /\ b \in joined[a].peers
    /\ a \notin joined[b].peers
    /\ last.ev = "join" /\ last.sid = a /\ last.prev \notin {NoRoom, r}

====
